---------------------------- MODULE Spec2Model ----------------------------
(***************************************************************************)
(* GlacierModel (mass-balance model of glacier-sim) as a state machine.    *)
(*                                                                         *)
(* Numbers.  The program computes in IEEE doubles; the model computes in   *)
(* exact fixed point.  Weather inputs (temperature, windSpeed,             *)
(* precipitation) are integers counting tenths of a unit, rates are        *)
(* integers counting hundredths, and every mass quantity (dailyChange,     *)
(* healthIndex, thresholds) is their product: an integer counting          *)
(* thousandths.  So healthIndex 100 is 100000, the rate 0.05 is 5, the     *)
(* temperature 0.5 is 5 and the threshold 0.1 is 100.  A mean (the 7-day   *)
(* trend) is kept as the exact fraction total/length.  Rounding of         *)
(* doubles, NaN and the infinities are outside the model.                  *)
(*                                                                         *)
(* Arrays.  A JavaScript array is an object reached through a reference,   *)
(* so the history is an address into the heap `arrays`; push and shift     *)
(* change the array at that address, `[...a]` allocates a new one.         *)
(* History entries are never written after they are built and are kept     *)
(* by value.                                                               *)
(***************************************************************************)
EXTENDS Integers, Sequences, FiniteSets, TLC

VARIABLES
    params,       \* this.params
    healthIndex,  \* this.healthIndex (thousandths)
    history,      \* this.history: address of the history array
    lastSource,   \* this.lastSource
    dataContext,  \* this.dataContext
    arrays,       \* heap: address -> contents of the array at that address
    snapshot,     \* the caller's stored snapshot (null until one is taken)
    varied,       \* number of non-routine calls made so far (exploration bound)
    lastCall,     \* the call that produced the current state
    dashboard     \* main.js: the glaciers' states, the active glacier and the
                  \* handlers suspended at an await (null without a dashboard)

vars == <<params, healthIndex, history, lastSource, dataContext, arrays,
          snapshot, varied, lastCall, dashboard>>

-----------------------------------------------------------------------------
(* Bounds of the exploration *)

\* Dates are day numbers; no observation is dated later than MaxDay.
MaxDay == 32

\* At most MaxVaried calls of a run differ from the routine call
\* (applyDailyObservation of the routine weather with the default label).
MaxVaried == 2

\* Non-routine calls are made while the history holds at most MaxEarly
\* entries, or at least maxHistory - 1 (around the eviction).
MaxEarly == 2

\* Number of heap addresses: the model's history, the stored snapshot's
\* history and one being allocated.
MaxArrays == 3

-----------------------------------------------------------------------------
(* Values *)

\* One mass unit (healthIndex, dailyChange, thresholds) in thousandths.
Units(n) == n * 1000

\* null: the stored snapshot before any was taken, an absent observation
NULL == [null |-> TRUE]

\* an omitted (undefined) string argument; no label of the model equals it
UNDEFINED == "undefined"

Max(a, b) == IF a >= b THEN a ELSE b
Min(a, b) == IF a <= b THEN a ELSE b

\* { ...a, ...b }
Spread(a, b) ==
    [k \in (DOMAIN a) \cup (DOMAIN b) |-> IF k \in DOMAIN b THEN b[k] ELSE a[k]]

\* An exact fraction num/den, den > 0.
Frac(n, d) == [num |-> n, den |-> d]
FracLT(a, b) == a.num * b.den < b.num * a.den
FracGT(a, b) == FracLT(b, a)
Whole(n) == Frac(n, 1)

\* Array.prototype.slice(-n): the last n elements, all of them when shorter
SliceLast(s, n) ==
    IF Len(s) <= n THEN s ELSE SubSeq(s, Len(s) - n + 1, Len(s))

DEFAULTS ==
    [accumulationRate   |-> 10,     \* 0.1
     meltRate           |-> 5,      \* 0.05
     sublimationRate    |-> 1,      \* 0.01
     advancingThreshold |-> 100,    \* 0.1
     recedingThreshold  |-> -100]   \* -0.1

\* this.maxHistory
maxHistory == 30

\* The constructor's options: none, or overrides of some parameters (here a
\* doubled accumulation rate and a threshold pair that overlaps: a trend
\* between -0.2 and 0.2 is above advancingThreshold and below
\* recedingThreshold).
Options ==
    { <<>>,
      [accumulationRate   |-> 20,
       advancingThreshold |-> -200,
       recedingThreshold  |-> 200] }

InitialDataContext ==
    [sourceLabel |-> "Observed",
     ageHours    |-> NULL,
     isFallback  |-> FALSE,
     isForecast  |-> FALSE,
     isScenario  |-> FALSE,
     isStale     |-> FALSE]

-----------------------------------------------------------------------------
(* Inputs *)

\* Weather of one day, in tenths: [temperature, windSpeed, precipitation].
Wx(t, w, p) == [temperature |-> t, windSpeed |-> w, precipitation |-> p]

\* 0.5 C, wind 10, precipitation 5: in the band (0,1] where snow and melt
\* both apply; +0.375 with the default parameters.
RoutineWeather == Wx(5, 100, 50)

VariedWeather ==
    { Wx(0, 0, 10),          \* exactly 0 C: no melt; +0.1
      Wx(10, 50, 20),        \* exactly 1 C: snow still accumulates
      Wx(11, 45, 50),        \* just above 1 C: no accumulation; -0.1
      Wx(-100, 0, 30000),    \* extreme snowfall: +300
      Wx(60000, 0, 0),       \* extreme heat: -300
      Wx(-50, -200, -10) }   \* negative wind and precipitation

Weather == {RoutineWeather} \cup VariedWeather

SourceLabels == {"Forecast", ""}

\* The (weather, sourceLabel) pairs applyDailyObservation is called with.
ApplyInputs ==
    (Weather \X {UNDEFINED}) \cup ({RoutineWeather} \X SourceLabels)

\* The (observation-or-null, sourceLabel) pairs resetWithObservation is
\* called with.
ResetInputs ==
    { <<NULL, UNDEFINED>>, <<NULL, "">>,
      <<RoutineWeather, UNDEFINED>>, <<Wx(60000, 0, 0), "Forecast">> }

\* The contexts setDataContext is called with: a whole context, as the
\* dashboard passes, and a partial one.
DataContexts ==
    { [sourceLabel |-> "Simulated", ageHours |-> NULL, isFallback |-> TRUE,
       isForecast |-> FALSE, isScenario |-> FALSE, isStale |-> TRUE],
      [isForecast |-> TRUE] }

Observation(weather, date) ==
    [date          |-> date,
     temperature   |-> weather.temperature,
     windSpeed     |-> weather.windSpeed,
     precipitation |-> weather.precipitation]

-----------------------------------------------------------------------------
(* The heap of arrays *)

\* The address a newly created array gets: the lowest one not in use.
NewArray(mem) ==
    CHOOSE a \in (1..MaxArrays) \ DOMAIN mem :
        \A b \in (1..MaxArrays) \ DOMAIN mem : a <= b

\* mem with a new array of contents s at address a
Allocate(mem, a, s) ==
    [b \in (DOMAIN mem) \cup {a} |-> IF b = a THEN s ELSE mem[b]]

\* Garbage collection: only the arrays at the addresses in roots are kept.
Collect(mem, roots) == [a \in (DOMAIN mem) \cap roots |-> mem[a]]

-----------------------------------------------------------------------------
(* GlacierModel: each method as a function of the object `self`, a record   *)
(* of the fields together with the heap the history lives in.               *)

\* constructor(options = {})
constructor(options) ==
    [params      |-> Spread(DEFAULTS, options),
     healthIndex |-> Units(100),
     history     |-> 1,
     lastSource  |-> "Observed",
     dataContext |-> InitialDataContext,
     arrays      |-> Allocate(<<>>, 1, <<>>)]

\* The contents of this.history
Contents(self) == self.arrays[self.history]

\* Faulty variant: accumulation stops at 1 C instead of above it
calculateWithStrictAccumulation(self, observation) ==
    LET accumulation ==
            IF observation.temperature < 10
            THEN observation.precipitation * self.params.accumulationRate
            ELSE 0
        melt ==
            IF observation.temperature > 0
            THEN observation.temperature * self.params.meltRate
            ELSE 0
        sublimation == observation.windSpeed * self.params.sublimationRate
    IN  accumulation - melt - sublimation

\* Faulty variant: the README's formula, snow at every temperature
calculateWithSnowAtEveryTemperature(self, observation) ==
    LET accumulation ==
            observation.precipitation * self.params.accumulationRate
        melt ==
            IF observation.temperature > 0
            THEN observation.temperature * self.params.meltRate
            ELSE 0
        sublimation == observation.windSpeed * self.params.sublimationRate
    IN  accumulation - melt - sublimation

\* calculateDailyMassChange({ temperature, windSpeed, precipitation })
calculateDailyMassChange(self, observation) ==
    LET accumulation ==
            IF observation.temperature <= 10
            THEN observation.precipitation * self.params.accumulationRate
            ELSE 0
        melt ==
            IF observation.temperature > 0
            THEN observation.temperature * self.params.meltRate
            ELSE 0
        sublimation == observation.windSpeed * self.params.sublimationRate
    IN  accumulation - melt - sublimation

\* sourceLabel = 'Observed': the default applies to an omitted argument only
DefaultLabel(sourceLabel) ==
    IF sourceLabel = UNDEFINED THEN "Observed" ELSE sourceLabel

\* Faulty variant: the upper limit is forgotten
ClampFromBelowOnly(x) == Max(0, x)

\* Math.max(0, Math.min(200, x))
Clamp(x) == Max(0, Min(Units(200), x))

\* this.history.push(entry)
Push(s, entry) == Append(s, entry)

\* Faulty variant: the oldest entry is kept and the newest dropped
ShiftDropsNewest(s) ==
    IF Len(s) > maxHistory THEN SubSeq(s, 1, Len(s) - 1) ELSE s

\* Faulty variant: the length test is off by one
ShiftIfFarOver(s) == IF Len(s) > maxHistory + 1 THEN Tail(s) ELSE s

\* if (this.history.length > this.maxHistory) this.history.shift()
ShiftIfOver(s) == IF Len(s) > maxHistory THEN Tail(s) ELSE s

\* Faulty variant: the entry records the health index from before the update
applyRecordingOldHealth(self, observation, sourceLabelArg) ==
    LET sourceLabel == DefaultLabel(sourceLabelArg)
        dailyChange == calculateDailyMassChange(self, observation)
        newHealth   == Clamp(self.healthIndex + dailyChange)
        entry       == [date        |-> observation.date,
                        dailyChange |-> dailyChange,
                        healthIndex |-> self.healthIndex,
                        sourceLabel |-> sourceLabel]
    IN  [self EXCEPT
            !.healthIndex = newHealth,
            !.lastSource  = sourceLabel,
            !.arrays      = [@ EXCEPT
                                ![self.history] = ShiftIfOver(Push(@, entry))]]

\* applyDailyObservation(observation, sourceLabel = 'Observed')
applyDailyObservation(self, observation, sourceLabelArg) ==
    LET sourceLabel == DefaultLabel(sourceLabelArg)
        dailyChange == calculateDailyMassChange(self, observation)
        newHealth   == Clamp(self.healthIndex + dailyChange)
        entry       == [date        |-> observation.date,
                        dailyChange |-> dailyChange,
                        healthIndex |-> newHealth,
                        sourceLabel |-> sourceLabel]
    IN  [self EXCEPT
            !.healthIndex = newHealth,
            !.lastSource  = sourceLabel,
            !.arrays      = [@ EXCEPT
                                ![self.history] = ShiftIfOver(Push(@, entry))]]

\* window.reduce((sum, entry) => sum + entry.dailyChange, 0)
RECURSIVE TotalDailyChange(_)
TotalDailyChange(window) ==
    IF window = <<>>
    THEN 0
    ELSE TotalDailyChange(SubSeq(window, 1, Len(window) - 1))
            + window[Len(window)].dailyChange

\* Faulty variant: the whole history is averaged
TrendWindowAll(s) == s

\* this.history.slice(-7)
TrendWindow(s) == SliceLast(s, 7)

\* getSevenDayTrend()
getSevenDayTrend(self) ==
    LET window == TrendWindow(Contents(self))
    IN  IF Len(window) = 0
        THEN Whole(0)
        ELSE Frac(TotalDailyChange(window), Len(window))

\* Faulty variant: a trend equal to advancingThreshold counts as advancing
ClassifyInclusive(self, trend) ==
    LET state0 == "Stable"
        state1 == IF ~FracLT(trend, Whole(self.params.advancingThreshold))
                  THEN "Advancing" ELSE state0
        state2 == IF FracLT(trend, Whole(self.params.recedingThreshold))
                  THEN "Receding" ELSE state1
    IN  state2

\* Faulty variant: the second comparison is under the else of the first
ClassifyElseIf(self, trend) ==
    IF FracGT(trend, Whole(self.params.advancingThreshold))
    THEN "Advancing"
    ELSE IF FracLT(trend, Whole(self.params.recedingThreshold))
         THEN "Receding"
         ELSE "Stable"

\* The classification of getState: two independent comparisons, in order.
Classify(self, trend) ==
    LET state0 == "Stable"
        state1 == IF FracGT(trend, Whole(self.params.advancingThreshold))
                  THEN "Advancing" ELSE state0
        state2 == IF FracLT(trend, Whole(self.params.recedingThreshold))
                  THEN "Receding" ELSE state1
    IN  state2

\* latest ? latest.dailyChange : 0
LatestDailyChange(s) == IF Len(s) = 0 THEN 0 ELSE s[Len(s)].dailyChange

\* Faulty variant: the state is that of the latest daily change
getStateByLatestChange(self) ==
    LET trend == getSevenDayTrend(self)
    IN  [healthIndex   |-> self.healthIndex,
         dailyChange   |-> LatestDailyChange(Contents(self)),
         sevenDayTrend |-> trend,
         state         |-> Classify(self,
                                    Whole(LatestDailyChange(Contents(self)))),
         lastSource    |-> self.lastSource]

\* getState()
getState(self) ==
    LET trend == getSevenDayTrend(self)
    IN  [healthIndex   |-> self.healthIndex,
         dailyChange   |-> LatestDailyChange(Contents(self)),
         sevenDayTrend |-> trend,
         state         |-> Classify(self, trend),
         lastSource    |-> self.lastSource]

\* Faulty variant: the history array itself is handed out, not a copy
getHistoryAliased(self) == [value |-> self.history, arrays |-> self.arrays]

\* getHistory(): [...this.history], a new array with the same entries.
\* Returns the address of the result and the heap holding it.
getHistory(self) ==
    LET a == NewArray(self.arrays)
    IN  [value |-> a, arrays |-> Allocate(self.arrays, a, Contents(self))]

\* Faulty variant: the context is laid over the initial context, not over
\* the current one
setDataContextOverInitial(self, context) ==
    [self EXCEPT !.dataContext = Spread(InitialDataContext, context)]

\* setDataContext(context)
setDataContext(self, context) ==
    [self EXCEPT !.dataContext = Spread(self.dataContext, context)]

\* getSnapshot(): the snapshot object and the heap holding its history
getSnapshot(self) ==
    LET copy == getHistory(self)
    IN  [value  |-> [healthIndex |-> self.healthIndex,
                     history     |-> copy.value,
                     lastSource  |-> self.lastSource],
         arrays |-> copy.arrays]

\* snapshot.healthIndex ?? 100: a snapshot's healthIndex is always a number
\* (0 included), never null or undefined, so the left operand is taken
RestoredHealth(h) == h

\* snapshot.lastSource || 'Observed': the empty string is falsy
RestoredSource(label) == IF label = "" THEN "Observed" ELSE label

\* Faulty variant: the history and lastSource are restored, the health
\* index is not
setSnapshotKeepingHealth(self, snap) ==
    IF snap = NULL
    THEN self
    ELSE LET a == NewArray(self.arrays)
         IN  [self EXCEPT
                !.history     = a,
                !.arrays      = Allocate(@, a, self.arrays[snap.history]),
                !.lastSource  = RestoredSource(snap.lastSource)]

\* setSnapshot(snapshot); mem is the heap holding the snapshot's history
setSnapshot(self, snap) ==
    IF snap = NULL
    THEN self
    ELSE LET a == NewArray(self.arrays)
         IN  [self EXCEPT
                !.healthIndex = RestoredHealth(snap.healthIndex),
                !.history     = a,
                !.arrays      = Allocate(@, a, self.arrays[snap.history]),
                !.lastSource  = RestoredSource(snap.lastSource)]

\* Faulty variant: a reset also puts the data context back to the initial
resetClearingContext(self, observation, sourceLabelArg) ==
    LET sourceLabel == DefaultLabel(sourceLabelArg)
        a     == NewArray(self.arrays)
        fresh == [self EXCEPT
                    !.healthIndex = Units(100),
                    !.history     = a,
                    !.arrays      = Allocate(@, a, <<>>),
                    !.lastSource  = sourceLabel,
                    !.dataContext = InitialDataContext]
    IN  IF observation = NULL
        THEN fresh
        ELSE applyDailyObservation(fresh, observation, sourceLabel)

\* Faulty variant: the history is not emptied
resetKeepingHistory(self, observation, sourceLabelArg) ==
    LET sourceLabel == DefaultLabel(sourceLabelArg)
        fresh == [self EXCEPT
                    !.healthIndex = Units(100),
                    !.lastSource  = sourceLabel]
    IN  IF observation = NULL
        THEN fresh
        ELSE applyDailyObservation(fresh, observation, sourceLabel)

\* resetWithObservation(observation, sourceLabel = 'Observed')
resetWithObservation(self, observation, sourceLabelArg) ==
    LET sourceLabel == DefaultLabel(sourceLabelArg)
        a     == NewArray(self.arrays)
        fresh == [self EXCEPT
                    !.healthIndex = Units(100),
                    !.history     = a,
                    !.arrays      = Allocate(@, a, <<>>),
                    !.lastSource  = sourceLabel]
    IN  IF observation = NULL
        THEN fresh
        ELSE applyDailyObservation(fresh, observation, sourceLabel)

-----------------------------------------------------------------------------
(* GlacierModel: the diagnostics *)

\* getTrendWindow()
getTrendWindow(self) == SliceLast(Contents(self), 7)

\* The non-negative number whose square is the fraction q: Math.sqrt(q),
\* kept exact.  It is compared with a bound t >= 0 by comparing q with t * t.
Root(q) == [squared |-> q]
RootGE(r, t) == r.squared.num >= t * t * r.squared.den

\* Sums of squares are kept up to Saturation and no further.  The largest
\* number a root is compared with is 1.5, and 1500 * 1500 * 7 * 7 * 7 is
\* below Saturation, so no comparison is changed by it.
Saturation == Units(900000)
Square(d) ==
    IF d >= 30000 \/ d <= -30000 THEN Saturation ELSE Min(Saturation, d * d)

\* values.reduce((sum, value) => sum + (value - mean) ** 2, 0), times n * n:
\* the deviations value - total / n are taken as (n * value - total) / n
RECURSIVE SquaredDeviations(_, _, _)
SquaredDeviations(window, n, total) ==
    IF window = <<>>
    THEN 0
    ELSE Min(Saturation,
             SquaredDeviations(SubSeq(window, 1, Len(window) - 1), n, total)
                + Square(n * window[Len(window)].dailyChange - total))

\* Faulty variant: the sample deviation, dividing by n - 1
getSampleDeviation(self) ==
    LET window == getTrendWindow(self)
        n      == Len(window)
    IN  IF n < 2
        THEN Root(Whole(0))
        ELSE Root(Frac(SquaredDeviations(window, n, TotalDailyChange(window)),
                       n * n * (n - 1)))

\* getTrendVariance(): the population standard deviation of the window
getTrendVariance(self) ==
    LET window == getTrendWindow(self)
        n      == Len(window)
    IN  IF n < 2
        THEN Root(Whole(0))
        ELSE Root(Frac(SquaredDeviations(window, n, TotalDailyChange(window)),
                       n * n * n))

\* The alerts getAlerts can push
CriticalLoss ==
    [id     |-> "critical-loss",
     level  |-> "critical",
     label  |-> "Critical Loss Phase",
     detail |-> "Health index below 50 indicates severe structural loss."]
IntegrityWarning ==
    [id     |-> "integrity-warning",
     level  |-> "warning",
     label  |-> "Integrity Warning",
     detail |-> "Health index below 70 signals weakening glacier integrity."]
HighMelt ==
    [id     |-> "high-melt",
     level  |-> "warning",
     label  |-> "High Melt Event",
     detail |-> "Daily mass loss exceeds 2.5 units."]
AcceleratedLoss ==
    [id     |-> "accelerated-loss",
     level  |-> "critical",
     label  |-> "Accelerated Loss Detected",
     detail |-> "7-day trend indicates rapid retreat."]
LowReliability(isStale) ==
    [id     |-> "low-reliability",
     level  |-> "info",
     label  |-> "Low Data Reliability",
     detail |-> IF isStale
                THEN "Live data is stale; results may be delayed."
                ELSE "Fallback or simulated data in use."]

\* if (condition) alerts.push(alert)
PushIf(condition, alerts, alert) ==
    IF condition THEN Append(alerts, alert) ELSE alerts

\* Faulty variant: the integrity warning is not under the else
HealthAlertsIndependent(h) ==
    PushIf(h < Units(70), PushIf(h < Units(50), <<>>, CriticalLoss),
           IntegrityWarning)

\* if (state.healthIndex < 50) ... else if (state.healthIndex < 70) ...
HealthAlerts(h) ==
    IF h < Units(50)
    THEN <<CriticalLoss>>
    ELSE PushIf(h < Units(70), <<>>, IntegrityWarning)

\* Faulty variant: a daily change of exactly -2.5 counts as a high melt
IsHighMeltInclusive(dailyChange) == dailyChange <= -2500

\* state.dailyChange < -2.5
IsHighMelt(dailyChange) == dailyChange < -2500

\* state.sevenDayTrend < -1.2
IsAcceleratedLoss(trend) == FracLT(trend, Whole(-1200))

\* getAlerts()
getAlerts(self) ==
    LET state   == getState(self)
        alerts1 == HealthAlerts(state.healthIndex)
        alerts2 == PushIf(IsHighMelt(state.dailyChange), alerts1, HighMelt)
        alerts3 == PushIf(IsAcceleratedLoss(state.sevenDayTrend), alerts2,
                          AcceleratedLoss)
        alerts4 == PushIf(self.dataContext.isFallback
                            \/ self.dataContext.isStale,
                          alerts3,
                          LowReliability(self.dataContext.isStale))
    IN  alerts4

\* An age in tenths of an hour.  typeof ageHours === 'number' holds of an
\* age and not of null.
Hours(tenths) == [hours |-> tenths]
IsNumber(ageHours) == ageHours # NULL

\* Faulty variant: the band of a deviation below 1.2 is always Low
VarianceReasonTwoBands(variance) ==
    IF RootGE(variance, 1200)
    THEN "High volatility in 7-day trend"
    ELSE "Low trend variability"

\* if (variance >= 1.2) ... else if (variance >= 0.6) ... else ...
VarianceReason(variance) ==
    IF RootGE(variance, 1200)
    THEN "High volatility in 7-day trend"
    ELSE IF RootGE(variance, 600)
         THEN "Moderate trend variability"
         ELSE "Low trend variability"

\* Faulty variant: the level is Low from the deviation of the High
\* volatility reason on
ConfidenceLevelLowFromHighBand(context, variance) ==
    IF context.isFallback \/ context.isScenario \/ context.isStale
          \/ RootGE(variance, 1200)
    THEN "Low"
    ELSE IF context.isForecast \/ RootGE(variance, 600)
         THEN "Medium"
         ELSE "High"

\* let level = 'Medium'; if ... else if ... else ...
ConfidenceLevel(context, variance) ==
    IF context.isFallback \/ context.isScenario \/ context.isStale
          \/ RootGE(variance, 1500)
    THEN "Low"
    ELSE IF context.isForecast \/ RootGE(variance, 600)
         THEN "Medium"
         ELSE "High"

\* getConfidence()
getConfidence(self) ==
    LET variance == getTrendVariance(self)
        context  == self.dataContext
        reasons1 == PushIf(context.isFallback \/ context.isScenario, <<>>,
                           "Using simulated or scenario data")
        reasons2 == PushIf(context.isForecast, reasons1, "Using forecast data")
        reasons3 == PushIf(context.isStale, reasons2, "Live data is stale")
        reasons4 == PushIf(/\ IsNumber(context.ageHours)
                           /\ context.ageHours.hours <= 20
                           /\ ~context.isStale,
                           reasons3, "Live data is fresh")
        reasons5 == Append(reasons4, VarianceReason(variance))
    IN  [level    |-> ConfidenceLevel(context, variance),
         reasons  |-> reasons5,
         variance |-> variance]

\* getTimeToLoss(collapseThreshold = 40): the default of the parameter
DefaultCollapseThreshold == Units(40)

\* Math.floor of the non-negative fraction q
Floor(q) == q.num \div q.den

\* Math.round of the non-negative fraction q: halves go up
Round(q) == (2 * q.num + q.den) \div (2 * q.den)

\* q % 365, for a non-negative fraction q
Mod365(q) == Frac(q.num - 365 * q.den * (q.num \div (365 * q.den)), q.den)

\* remaining / Math.abs(trend), the trend negative
DaysLeft(remaining, trend) == Frac(remaining * trend.den, -trend.num)

\* Faulty variant: a threshold equal to the health index is not yet crossed
IsCollapsedStrict(remaining) == remaining < 0

\* remaining <= 0
IsCollapsed(remaining) == remaining <= 0

\* Faulty variant: the dead-band is the default recedingThreshold, -0.1
IsSteadyByRecedingThreshold(self, trend) ==
    ~FracLT(trend, Whole(DEFAULTS.recedingThreshold))

\* trend >= -0.05
IsSteady(self, trend) == ~FracLT(trend, Whole(-50))

\* getTimeToLoss(collapseThreshold).  The message of the declining branch
\* is the template with the two numbers it interpolates.
getTimeToLoss(self, collapseThreshold) ==
    LET state     == getState(self)
        trend     == state.sevenDayTrend
        remaining == state.healthIndex - collapseThreshold
        daysLeft  == DaysLeft(remaining, trend)
        years     == Floor(Frac(daysLeft.num, 365 * daysLeft.den))
        days      == Round(Mod365(daysLeft))
    IN  IF IsCollapsed(remaining)
        THEN [status  |-> "collapsed",
              message |-> [text |-> "Threshold already crossed."],
              days    |-> 0,
              years   |-> 0]
        ELSE IF IsSteady(self, trend)
        THEN [status  |-> "stable",
              message |-> [text |->
                             "No collapse projected under current conditions."],
              days    |-> NULL,
              years   |-> NULL]
        ELSE [status  |-> "declining",
              message |-> [text  |-> "~${years} years, ${days} days remaining.",
                           years |-> years,
                           days  |-> days],
              days    |-> daysLeft,
              years   |-> years]

-----------------------------------------------------------------------------
(* The state machine: one model object and the caller that drives it *)

\* The object in the current state
This ==
    [params      |-> params,
     healthIndex |-> healthIndex,
     history     |-> history,
     lastSource  |-> lastSource,
     dataContext |-> dataContext,
     arrays      |-> arrays]

\* The next state holds the object self and the stored snapshot snap.  The
\* arrays neither of them refers to are collected and the addresses are
\* renamed, the model's history to 1 and a snapshot's distinct history to 2:
\* the program cannot observe an address, only whether two references are
\* the same array, and the renaming keeps that.
Becomes(self, snap) ==
    LET h       == self.history
        sh      == IF snap = NULL THEN h ELSE snap.history
        rename  == [a \in {h, sh} |-> IF a = h THEN 1 ELSE 2]
        kept    == Collect(self.arrays, {h, sh})
    IN  /\ params' = self.params
        /\ healthIndex' = self.healthIndex
        /\ history' = rename[h]
        /\ lastSource' = self.lastSource
        /\ dataContext' = self.dataContext
        /\ snapshot' = IF snap = NULL
                       THEN NULL
                       ELSE [snap EXCEPT !.history = rename[sh]]
        /\ arrays' = [b \in {rename[a] : a \in DOMAIN kept} |->
                        kept[CHOOSE a \in DOMAIN kept : rename[a] = b]]
        /\ dashboard' = dashboard

\* Observations arrive in chronological order: the day after the latest
\* entry, day 1 on an empty history.
NextDate(s) == IF Len(s) = 0 THEN 1 ELSE s[Len(s)].date + 1

\* A routine call is free.  Any other call counts against MaxVaried and is
\* made while the history is short or full.
Explore(routine) ==
    IF routine
    THEN varied' = varied
    ELSE /\ varied < MaxVaried
         /\ \/ Len(arrays[history]) <= MaxEarly
            \/ Len(arrays[history]) >= maxHistory - 1
         /\ varied' = varied + 1

Init ==
    \E options \in Options :
        LET self == constructor(options)
        IN  /\ params = self.params
            /\ healthIndex = self.healthIndex
            /\ history = self.history
            /\ lastSource = self.lastSource
            /\ dataContext = self.dataContext
            /\ arrays = self.arrays
            /\ snapshot = NULL
            /\ varied = 0
            /\ lastCall = [op |-> "constructor", options |-> options]
            /\ dashboard = NULL

ApplyDailyObservation ==
    \E in \in ApplyInputs :
        LET date == NextDate(arrays[history])
            observation == Observation(in[1], date)
        IN  /\ date <= MaxDay
            /\ Explore(in = <<RoutineWeather, UNDEFINED>>)
            /\ Becomes(applyDailyObservation(This, observation, in[2]), snapshot)
            /\ lastCall' = [op |-> "applyDailyObservation",
                            observation |-> observation, sourceLabel |-> in[2]]

ResetWithObservation ==
    \E in \in ResetInputs :
        LET observation ==
                IF in[1] = NULL THEN NULL ELSE Observation(in[1], 1)
        IN  /\ Explore(FALSE)
            /\ Becomes(resetWithObservation(This, observation, in[2]), snapshot)
            /\ lastCall' = [op |-> "resetWithObservation",
                            observation |-> observation, sourceLabel |-> in[2]]

\* snapshot = model.getSnapshot()
GetSnapshot ==
    LET got == getSnapshot(This)
    IN  /\ Explore(FALSE)
        /\ Becomes([This EXCEPT !.arrays = got.arrays], got.value)
        /\ lastCall' = [op |-> "getSnapshot"]

\* model.setSnapshot(snapshot)
SetSnapshot ==
    /\ varied' = varied
    /\ Becomes(setSnapshot(This, snapshot), snapshot)
    /\ lastCall' = [op |-> "setSnapshot"]

SetDataContext ==
    \E context \in DataContexts :
        /\ Explore(FALSE)
        /\ Becomes(setDataContext(This, context), snapshot)
        /\ lastCall' = [op |-> "setDataContext", context |-> context]

Next ==
    \/ ApplyDailyObservation
    \/ ResetWithObservation
    \/ GetSnapshot
    \/ SetSnapshot
    \/ SetDataContext

Spec == Init /\ [][Next]_vars

-----------------------------------------------------------------------------
(* The diagnostics' state machine: the first days of a glacier, its data    *)
(* context, and the read operations the dashboard calls after each change.  *)

\* No observation of these runs is dated later than MaxDiagnosticDays: the
\* 7-day window is filled and moves on by two days.
MaxDiagnosticDays == 9

DiagnosticWeather ==
    { Wx(10, 0, 0),          \* -0.05, the dead-band of getTimeToLoss
      Wx(11, 45, 50),        \* -0.1, the default recedingThreshold
      Wx(11, 109, 0),        \* -0.164: 364.85 days from 100 down to 40
      Wx(500, 0, 0),         \* -2.5, the bound of the high melt alert
      Wx(600, 0, 0),         \* -3
      Wx(6000, 0, 0),        \* -30: a health index of 70
      Wx(7000, 0, 0),        \* -35: a health index of 65
      Wx(10000, 0, 0),       \* -50: a health index of 50
      Wx(60000, 0, 0) }      \* -300: a health index of 0

DiagnosticContexts ==
    { [sourceLabel |-> "Simulated", ageHours |-> NULL, isFallback |-> TRUE,
       isForecast |-> FALSE, isScenario |-> FALSE, isStale |-> TRUE],
      [sourceLabel |-> "Open-Meteo", ageHours |-> Hours(10),
       isFallback |-> FALSE, isForecast |-> FALSE, isScenario |-> FALSE,
       isStale |-> FALSE],
      [isFallback |-> TRUE],
      [isForecast |-> TRUE],
      [isScenario |-> TRUE],
      [isStale |-> TRUE] }

\* The thresholds getTimeToLoss is called with: the default, none left at
\* a health index of 100, and one that is never crossed.
CollapseThresholds == {DefaultCollapseThreshold, Units(100), Units(-10)}

ReadMethods ==
    { "getState", "getHistory", "getSevenDayTrend", "getTrendVariance",
      "getAlerts", "getConfidence", "getTimeToLoss", "getSummary",
      "getSnapshot" }

\* Faulty variant: getTrendVariance takes its window with splice(-7), which
\* removes it from the history
AfterReadSplicing(self, method) ==
    IF method = "getTrendVariance"
    THEN [self EXCEPT !.arrays = [@ EXCEPT ![self.history] = <<>>]]
    ELSE self

\* The object after a read method returned.  None of them assigns to a
\* field of this, and the array methods they call on this.history (slice,
\* map, filter, reduce and the spread) build new arrays.
AfterRead(self, method) == self

DiagnosticObservation ==
    \E weather \in {RoutineWeather} \cup DiagnosticWeather :
        LET date == NextDate(arrays[history])
            observation == Observation(weather, date)
        IN  /\ date <= MaxDiagnosticDays
            /\ Explore(weather = RoutineWeather)
            /\ Becomes(applyDailyObservation(This, observation, UNDEFINED),
                       snapshot)
            /\ lastCall' = [op |-> "applyDailyObservation",
                            observation |-> observation,
                            sourceLabel |-> UNDEFINED]

DiagnosticContext ==
    \E context \in DiagnosticContexts :
        /\ Explore(FALSE)
        /\ Becomes(setDataContext(This, context), snapshot)
        /\ lastCall' = [op |-> "setDataContext", context |-> context]

\* One of the read methods is called and its result is dropped.  A read
\* counts against MaxVaried, whatever the length of the history.
Read ==
    \E method \in ReadMethods :
        /\ varied < MaxVaried
        /\ varied' = varied + 1
        /\ Becomes(AfterRead(This, method), snapshot)
        /\ lastCall' = [op |-> "read"]

NextDiagnostics ==
    \/ DiagnosticObservation
    \/ DiagnosticContext
    \/ Read

SpecDiagnostics == Init /\ [][NextDiagnostics]_vars

-----------------------------------------------------------------------------
(* Properties *)

\* The entries of the model's history, oldest first
History == arrays[history]

\* What the stored snapshot records
SnapshotContent ==
    [healthIndex |-> snapshot.healthIndex,
     history     |-> arrays[snapshot.history],
     lastSource  |-> snapshot.lastSource]

Applied == lastCall.op = "applyDailyObservation"

\* C1: in every state reachable by applyDailyObservation,
\* resetWithObservation and setSnapshot (of snapshots getSnapshot returned),
\* whatever the size and sign of the weather, 0 <= healthIndex <= 200.
C1_HealthIndexInRange == 0 <= healthIndex /\ healthIndex <= Units(200)

\* An observation whose change alone exceeds the whole range was applied and
\* the index sits on a limit.
C1_Witness ==
    /\ Applied
    /\ History[Len(History)].dailyChange > Units(200)
    /\ healthIndex = Units(200)

\* C2: in every reachable state the history holds at most 30 entries.
C2_HistoryAtMost30 == Len(History) <= 30

\* A full history from which entries have already been evicted.
C2_Witness ==
    /\ Applied
    /\ Len(History) = 30
    /\ History[1].date > 1

\* The dates first..last in order
DatesFrom(first, last) == [i \in 1..(last - first + 1) |-> first + i - 1]
DatesOf(s) == [i \in 1..Len(s) |-> s[i].date]

\* C3: FIFO eviction.  An applyDailyObservation appends its entry at the
\* end; on a full history of 30 it removes the oldest entry and no other,
\* on a shorter one it removes none.  The n-th observation applied to a
\* history that started empty is dated n, so after it the history is the
\* entries dated n - min(n, 30) + 1 .. n in that order (after 31 applies
\* entry 1 is absent and 2..31 remain).
C3_FifoEviction ==
    [][ lastCall'.op = "applyDailyObservation" =>
          LET old   == History
              new   == History'
              entry == new[Len(new)]
              n     == lastCall'.observation.date
          IN  /\ Len(new) >= 1
              /\ entry.date = n
              /\ new = IF Len(old) < 30
                       THEN Append(old, entry)
                       ELSE Append(Tail(old), entry)
              /\ DatesOf(new) = DatesFrom(n - Min(n, 30) + 1, n)
      ]_vars

\* 31 observations were applied: entry 1 is gone, entries 2..31 remain.
C3_Witness ==
    /\ Applied
    /\ lastCall.observation.date = 31
    /\ DatesOf(History) = DatesFrom(2, 31)

\* C4: applyDailyObservation(observation, sourceLabel) sets healthIndex to
\* clamp(old healthIndex + calculateDailyMassChange(observation), 0, 200),
\* sets lastSource to sourceLabel and appends as last entry
\* {date, dailyChange, healthIndex: the new healthIndex, sourceLabel}.
C4_ApplyDailyObservation ==
    [][ lastCall'.op = "applyDailyObservation" =>
          LET observation == lastCall'.observation
              sourceLabel == IF lastCall'.sourceLabel = UNDEFINED
                             THEN "Observed"
                             ELSE lastCall'.sourceLabel
              dailyChange == calculateDailyMassChange(This, observation)
              sum         == healthIndex + dailyChange
              clamped     == IF sum < 0 THEN 0
                             ELSE IF sum > Units(200) THEN Units(200)
                             ELSE sum
          IN  /\ healthIndex' = clamped
              /\ lastSource' = sourceLabel
              /\ Len(History') >= 1
              /\ History'[Len(History')] =
                    [date        |-> observation.date,
                     dailyChange |-> dailyChange,
                     healthIndex |-> clamped,
                     sourceLabel |-> sourceLabel]
      ]_vars

\* An observation was applied under an explicit label and the sum, above
\* 200, was cut.
C4_Witness ==
    /\ Applied
    /\ lastCall.sourceLabel = "Forecast"
    /\ Len(History) >= 2
    /\ History[Len(History) - 1].healthIndex
          + History[Len(History)].dailyChange > Units(200)
    /\ healthIndex = Units(200)

\* What the claim C5 says calculateDailyMassChange returns, region by
\* region of the temperature (tenths of a degree).
C5_Expected(p, o) ==
    IF o.temperature <= 0
    THEN o.precipitation * p.accumulationRate
            - o.windSpeed * p.sublimationRate
    ELSE IF o.temperature <= 10
    THEN o.precipitation * p.accumulationRate
            - o.temperature * p.meltRate
            - o.windSpeed * p.sublimationRate
    ELSE 0 - o.temperature * p.meltRate - o.windSpeed * p.sublimationRate

\* C5: calculateDailyMassChange returns accumulation - melt - sublimation
\* with accumulation = precipitation*accumulationRate iff temperature <= 1,
\* melt = temperature*meltRate iff temperature > 0 and sublimation =
\* windSpeed*sublimationRate always: no melt at exactly 0, accumulation at
\* exactly 1, both in (0,1].  Checked for every weather of the model under
\* the object's parameters, and for the change recorded by the last apply.
C5_DailyMassChange ==
    /\ \A weather \in Weather :
          calculateDailyMassChange(This, Observation(weather, 1))
             = C5_Expected(params, weather)
    /\ Applied =>
          History[Len(History)].dailyChange
             = C5_Expected(params, lastCall.observation)

\* An observation at exactly 1 C with precipitation was applied.
C5_Witness ==
    /\ Applied
    /\ lastCall.observation.temperature = 10
    /\ lastCall.observation.precipitation > 0
    /\ History[Len(History)].dailyChange
          = lastCall.observation.precipitation * params.accumulationRate
              - 10 * params.meltRate
              - lastCall.observation.windSpeed * params.sublimationRate

\* The sum of dailyChange over the entries first..last of s
RECURSIVE C6_Sum(_, _, _)
C6_Sum(s, first, last) ==
    IF first > last THEN 0 ELSE s[first].dailyChange + C6_Sum(s, first + 1, last)

\* C6: getSevenDayTrend returns exactly 0 on an empty history, the mean of
\* dailyChange over all k entries when k < 7, and the mean over exactly the
\* last 7 entries when k >= 7.
C6_SevenDayTrend ==
    LET k     == Len(History)
        trend == getSevenDayTrend(This)
    IN  /\ k = 0 => trend = Frac(0, 1)
        /\ (0 < k /\ k < 7) => trend = Frac(C6_Sum(History, 1, k), k)
        /\ k >= 7 => trend = Frac(C6_Sum(History, k - 6, k), 7)

\* More than 7 entries, and the last 7 average differently from all of them
\* and from the difference of the window's endpoints' health index.
C6_Witness ==
    LET k == Len(History)
    IN  /\ k > 7
        /\ C6_Sum(History, k - 6, k) * k # C6_Sum(History, 1, k) * 7
        /\ C6_Sum(History, k - 6, k)
              # 7 * (History[k].healthIndex - History[k - 6].healthIndex)

\* C7 as stated: getState reports 'Advancing' when sevenDayTrend >
\* advancingThreshold, 'Receding' when sevenDayTrend < recedingThreshold and
\* 'Stable' otherwise; dailyChange is the last entry's (0 on an empty
\* history); healthIndex and lastSource are the model's.
C7_GetStateAsStated ==
    LET got   == getState(This)
        trend == got.sevenDayTrend
        above == FracGT(trend, Whole(params.advancingThreshold))
        below == FracLT(trend, Whole(params.recedingThreshold))
    IN  /\ trend = getSevenDayTrend(This)
        /\ above => got.state = "Advancing"
        /\ below => got.state = "Receding"
        /\ (~above /\ ~below) => got.state = "Stable"
        /\ got.dailyChange =
              IF Len(History) = 0 THEN 0 ELSE History[Len(History)].dailyChange
        /\ got.healthIndex = healthIndex
        /\ got.lastSource = lastSource

\* C7, amended: getState reports 'Receding' when sevenDayTrend <
\* recedingThreshold, 'Advancing' when sevenDayTrend > advancingThreshold
\* and not sevenDayTrend < recedingThreshold, and 'Stable' otherwise (a
\* trend equal to a threshold is on the 'Stable' side of it); dailyChange,
\* healthIndex and lastSource as stated.
C7_GetState ==
    LET got   == getState(This)
        trend == got.sevenDayTrend
        above == FracGT(trend, Whole(params.advancingThreshold))
        below == FracLT(trend, Whole(params.recedingThreshold))
    IN  /\ trend = getSevenDayTrend(This)
        /\ below => got.state = "Receding"
        /\ (above /\ ~below) => got.state = "Advancing"
        /\ (~above /\ ~below) => got.state = "Stable"
        /\ got.dailyChange =
              IF Len(History) = 0 THEN 0 ELSE History[Len(History)].dailyChange
        /\ got.healthIndex = healthIndex
        /\ got.lastSource = lastSource

\* After an observation, the trend is above advancingThreshold and below
\* recedingThreshold at once, and the state reported is 'Receding'.
C7_Witness ==
    LET got == getState(This)
    IN  /\ Applied
        /\ got.dailyChange # 0
        /\ FracGT(got.sevenDayTrend, Whole(params.advancingThreshold))
        /\ FracLT(got.sevenDayTrend, Whole(params.recedingThreshold))
        /\ got.state = "Receding"

\* C8: setSnapshot(getSnapshot()) leaves getState() and getHistory() as they
\* were, whatever sourceLabel strings were used: a getSnapshot step followed
\* at once by a setSnapshot step changes neither.
C8_SnapshotRoundTrip ==
    [][ (lastCall.op = "getSnapshot" /\ lastCall'.op = "setSnapshot") =>
          /\ getState(This)' = getState(This)
          /\ History' = History
      ]_vars

\* C9: a snapshot is an independent copy.  Once stored, what it records
\* (healthIndex, history entries, lastSource) is changed by no
\* applyDailyObservation, resetWithObservation, setSnapshot or
\* setDataContext; every setSnapshot of it installs the health index and the
\* entries it records (and its lastSource, 'Observed' for an empty one), so
\* a second restore gives the state the first one gave.
C9_SnapshotIndependent ==
    [][ (snapshot # NULL /\ lastCall'.op # "getSnapshot") =>
          /\ snapshot' # NULL
          /\ SnapshotContent' = SnapshotContent
          /\ lastCall'.op = "setSnapshot" =>
                /\ healthIndex' = SnapshotContent.healthIndex
                /\ History' = SnapshotContent.history
                /\ lastSource' = IF SnapshotContent.lastSource = ""
                                 THEN "Observed"
                                 ELSE SnapshotContent.lastSource
      ]_vars

\* A full history was captured, and the model has since evicted an entry
\* the snapshot still holds.
C9_Witness ==
    /\ snapshot # NULL
    /\ Applied
    /\ Len(SnapshotContent.history) = 30
    /\ Len(History) = 30
    /\ History[1].date > SnapshotContent.history[1].date

\* C10: resetWithObservation(observation, sourceLabel), from any state,
\* leaves healthIndex, history and lastSource as a newly constructed model
\* with the same parameters has them after applyDailyObservation(
\* observation, sourceLabel): one entry, healthIndex = clamp(100 +
\* dailyChange); without an observation healthIndex = 100, the history is
\* empty and lastSource = sourceLabel.
C10_ResetWithObservation ==
    [][ lastCall'.op = "resetWithObservation" =>
          LET observation == lastCall'.observation
              sourceLabel == lastCall'.sourceLabel
              fresh       == [constructor(<<>>) EXCEPT !.params = params]
              expected    == applyDailyObservation(fresh, observation, sourceLabel)
          IN  IF observation = NULL
              THEN /\ healthIndex' = Units(100)
                   /\ History' = <<>>
                   /\ lastSource' = IF sourceLabel = UNDEFINED
                                    THEN "Observed" ELSE sourceLabel
              ELSE /\ healthIndex' = expected.healthIndex
                   /\ History' = Contents(expected)
                   /\ lastSource' = expected.lastSource
                   /\ Len(History') = 1
                   /\ healthIndex' =
                         Max(0, Min(Units(200),
                                    Units(100) + History'[1].dailyChange))
      ]_vars

\* A reset with an observation, the single entry's change cut at 0.
C10_Witness ==
    /\ lastCall.op = "resetWithObservation"
    /\ lastCall.observation # NULL
    /\ Len(History) = 1
    /\ Units(100) + History[1].dailyChange < 0
    /\ healthIndex = 0

-----------------------------------------------------------------------------
(* Properties of the diagnostics *)

\* The labels of getAlerts(), in the order of the array
AlertLabels == [i \in 1..Len(getAlerts(This)) |-> getAlerts(This)[i].label]

\* The alert of that label, if getAlerts() holds one
HasAlert(label) == \E i \in 1..Len(AlertLabels) : AlertLabels[i] = label

\* The latest daily change and the 7-day trend, read off the history
LatestChange ==
    IF History = <<>> THEN 0 ELSE History[Len(History)].dailyChange
WindowStart == Max(1, Len(History) - 6)
WindowLength == Len(History) - WindowStart + 1
WindowTotal == C6_Sum(History, WindowStart, Len(History))

\* C11: getAlerts() never holds both 'Critical Loss Phase' and 'Integrity
\* Warning'.  With healthIndex < 50 it holds the critical alert only, with
\* 50 <= healthIndex < 70 the warning only, with healthIndex >= 70 neither.
C11_HealthAlertsExclusive ==
    /\ ~(HasAlert("Critical Loss Phase") /\ HasAlert("Integrity Warning"))
    /\ healthIndex < Units(50) =>
          HasAlert("Critical Loss Phase") /\ ~HasAlert("Integrity Warning")
    /\ (Units(50) <= healthIndex /\ healthIndex < Units(70)) =>
          HasAlert("Integrity Warning") /\ ~HasAlert("Critical Loss Phase")
    /\ healthIndex >= Units(70) =>
          ~HasAlert("Integrity Warning") /\ ~HasAlert("Critical Loss Phase")

\* The health index has come down to exactly 50: the warning, and not the
\* critical alert.
C11_Witness ==
    /\ Applied
    /\ healthIndex = Units(50)
    /\ HasAlert("Integrity Warning")
    /\ ~HasAlert("Critical Loss Phase")

\* The labels the claim C12 lets getAlerts() hold, in its order
C12_Expected ==
    (IF healthIndex < Units(50) THEN <<"Critical Loss Phase">>
     ELSE IF healthIndex < Units(70) THEN <<"Integrity Warning">>
     ELSE <<>>)
    \o (IF LatestChange < -2500 THEN <<"High Melt Event">> ELSE <<>>)
    \o (IF WindowLength > 0 /\ WindowTotal < -1200 * WindowLength
        THEN <<"Accelerated Loss Detected">> ELSE <<>>)
    \o (IF dataContext.isFallback \/ dataContext.isStale
        THEN <<"Low Data Reliability">> ELSE <<>>)

\* C12: getAlerts() makes its four checks in the order health alert, 'High
\* Melt Event', 'Accelerated Loss Detected', 'Low Data Reliability'.  The
\* high melt alert is there exactly when the latest dailyChange < -2.5, the
\* accelerated loss exactly when the 7-day trend < -1.2, the low
\* reliability exactly when isFallback or isStale, and its detail is the
\* stale wording whenever isStale, the fallback wording otherwise.
C12_AlertsInOrder ==
    /\ AlertLabels = C12_Expected
    /\ \A i \in 1..Len(getAlerts(This)) :
          getAlerts(This)[i].label = "Low Data Reliability" =>
              getAlerts(This)[i].detail =
                  IF dataContext.isStale
                  THEN "Live data is stale; results may be delayed."
                  ELSE "Fallback or simulated data in use."

\* All four alerts at once, the data both fallback and stale: the detail
\* is the stale wording.
C12_Witness ==
    /\ AlertLabels = <<"Critical Loss Phase", "High Melt Event",
                       "Accelerated Loss Detected", "Low Data Reliability">>
    /\ dataContext.isFallback
    /\ dataContext.isStale
    /\ getAlerts(This)[4].detail = "Live data is stale; results may be delayed."

\* The three reasons that name the band of the trend's deviation
BandReasons ==
    { "High volatility in 7-day trend", "Moderate trend variability",
      "Low trend variability" }

\* No flag of the data context is set and there is no age
ContextIsPlain ==
    /\ ~dataContext.isFallback
    /\ ~dataContext.isForecast
    /\ ~dataContext.isScenario
    /\ ~dataContext.isStale
    /\ dataContext.ageHours = NULL

\* C13: the reasons of getConfidence() are never empty.  Exactly one of
\* them names the variance band and it is the last: 'High volatility in
\* 7-day trend' exactly when variance >= 1.2, 'Moderate trend variability'
\* exactly when 0.6 <= variance < 1.2, 'Low trend variability' otherwise.
\* With every flag false and ageHours null it is the only reason.
C13_ConfidenceReasons ==
    LET reasons  == getConfidence(This).reasons
        variance == getTrendVariance(This)
        last     == reasons[Len(reasons)]
    IN  /\ Len(reasons) >= 1
        /\ last \in BandReasons
        /\ \A i \in 1..(Len(reasons) - 1) : reasons[i] \notin BandReasons
        /\ last = "High volatility in 7-day trend" <=> RootGE(variance, 1200)
        /\ last = "Moderate trend variability" <=>
              RootGE(variance, 600) /\ ~RootGE(variance, 1200)
        /\ last = "Low trend variability" <=> ~RootGE(variance, 600)
        /\ ContextIsPlain => Len(reasons) = 1

\* Fresh live data and a deviation in the middle band: two reasons, the
\* band last.
C13_Witness ==
    /\ Len(History) >= 2
    /\ getConfidence(This).reasons =
          <<"Live data is fresh", "Moderate trend variability">>

\* C14: the level of getConfidence() is 'Low' exactly when isFallback,
\* isScenario or isStale is set or variance >= 1.5; otherwise 'Medium'
\* exactly when isForecast is set or variance >= 0.6; otherwise 'High'.
\* So with the flags false and 1.2 <= variance < 1.5 the level is 'Medium'
\* while the reason reads 'High volatility in 7-day trend'.
C14_ConfidenceLevel ==
    LET got      == getConfidence(This)
        variance == getTrendVariance(This)
        low      == \/ dataContext.isFallback
                    \/ dataContext.isScenario
                    \/ dataContext.isStale
                    \/ RootGE(variance, 1500)
        medium   == dataContext.isForecast \/ RootGE(variance, 600)
    IN  /\ got.level = "Low" <=> low
        /\ got.level = "Medium" <=> (~low /\ medium)
        /\ got.level = "High" <=> (~low /\ ~medium)
        /\ (ContextIsPlain /\ RootGE(variance, 1200) /\ ~RootGE(variance, 1500))
              => /\ got.level = "Medium"
                 /\ got.reasons = <<"High volatility in 7-day trend">>

\* No flag set, a deviation between 1.2 and 1.5: 'Medium' next to the
\* reason 'High volatility in 7-day trend'.
C14_Witness ==
    /\ ContextIsPlain
    /\ RootGE(getTrendVariance(This), 1200)
    /\ ~RootGE(getTrendVariance(This), 1500)
    /\ getConfidence(This).level = "Medium"
    /\ getConfidence(This).reasons = <<"High volatility in 7-day trend">>

\* The 7-day trend, read off the history, is at least / below -0.05
TrendInDeadBand == WindowLength = 0 \/ WindowTotal >= -50 * WindowLength
TrendDeclining == ~TrendInDeadBand

\* C15: getTimeToLoss(threshold) returns status 'collapsed' with days = 0
\* and years = 0 whenever healthIndex - threshold <= 0, whatever the 7-day
\* trend is.
C15_Collapsed ==
    \A threshold \in CollapseThresholds :
        healthIndex - threshold <= 0 =>
            LET got == getTimeToLoss(This, threshold)
            IN  /\ got.status = "collapsed"
                /\ got.days = 0
                /\ got.years = 0

\* The health index is at or below the default threshold while the last
\* seven days all gained mass: collapsed all the same.
C15_Witness ==
    /\ healthIndex <= DefaultCollapseThreshold
    /\ WindowLength = 7
    /\ \A i \in WindowStart..Len(History) : History[i].dailyChange > 0
    /\ getTimeToLoss(This, DefaultCollapseThreshold).status = "collapsed"

\* C16: in the declining branch of getTimeToLoss (healthIndex - threshold
\* > 0 and 7-day trend < -0.05), with daysLeft = remaining / |trend|, the
\* result has status 'declining', years = floor(daysLeft / 365) and
\* days = round(daysLeft mod 365).
C16_DecliningResult ==
    \A threshold \in CollapseThresholds :
        (healthIndex - threshold > 0 /\ TrendDeclining) =>
            LET got       == getTimeToLoss(This, threshold)
                remaining == healthIndex - threshold
                daysLeft  == Frac(remaining * WindowLength, -WindowTotal)
                years     == daysLeft.num \div (365 * daysLeft.den)
                rest      == daysLeft.num - 365 * daysLeft.den * years
                days      == (2 * rest + daysLeft.den) \div (2 * daysLeft.den)
            IN  /\ got.status = "declining"
                /\ got.years = years
                /\ got.days.num = days * got.days.den

\* C17: whenever healthIndex - threshold > 0 and the 7-day trend >= -0.05,
\* getTimeToLoss returns status 'stable' with days = null and years = null,
\* and with a trend below -0.05 it does not, whatever params.
\* recedingThreshold is: the dead-band is the fixed -0.05.
C17_DeadBand ==
    \A threshold \in CollapseThresholds :
        healthIndex - threshold > 0 =>
            LET got == getTimeToLoss(This, threshold)
            IN  /\ got.status = "stable" <=> TrendInDeadBand
                /\ got.status = "stable" =>
                      got.days = NULL /\ got.years = NULL

\* With the default parameters, a trend of at least -0.1 and below -0.05:
\* getState says 'Stable', getTimeToLoss says 'declining'.
C17_Witness ==
    /\ params = DEFAULTS
    /\ WindowLength > 0
    /\ WindowTotal >= -100 * WindowLength
    /\ WindowTotal < -50 * WindowLength
    /\ getState(This).state = "Stable"
    /\ getTimeToLoss(This, DefaultCollapseThreshold).status = "declining"

\* What the read methods return on the object self (of getHistory and
\* getSnapshot the entries of the array they return)
ReadResults(self) ==
    LET copy == getHistory(self)
        snap == getSnapshot(self)
    IN  [getState         |-> getState(self),
         getHistory       |-> copy.arrays[copy.value],
         getSevenDayTrend |-> getSevenDayTrend(self),
         getTrendVariance |-> getTrendVariance(self),
         getAlerts        |-> getAlerts(self),
         getConfidence    |-> getConfidence(self),
         getTimeToLoss    |-> [threshold \in CollapseThresholds |->
                                  getTimeToLoss(self, threshold)],
         getSnapshot      |-> [healthIndex |-> snap.value.healthIndex,
                               history     |-> snap.arrays[snap.value.history],
                               lastSource  |-> snap.value.lastSource]]

\* The object in the next state
ThisNext ==
    [params      |-> params',
     healthIndex |-> healthIndex',
     history     |-> history',
     lastSource  |-> lastSource',
     dataContext |-> dataContext',
     arrays      |-> arrays']

\* C18: a call of getState, getHistory, getSevenDayTrend, getTrendVariance,
\* getAlerts, getConfidence, getTimeToLoss, getSummary or getSnapshot leaves
\* healthIndex, the history, lastSource, dataContext and params as they
\* were, and so every read method returns after it what it returned before.
C18_ReadsChangeNothing ==
    [][ lastCall'.op = "read" =>
          /\ params' = params
          /\ healthIndex' = healthIndex
          /\ History' = History
          /\ lastSource' = lastSource
          /\ dataContext' = dataContext
          /\ ReadResults(ThisNext) = ReadResults(This)
      ]_vars

\* A read method was called on a glacier with a full window, alerts and a
\* declining projection.
C18_Witness ==
    /\ lastCall.op = "read"
    /\ Len(History) >= 7
    /\ Len(getAlerts(This)) >= 2
    /\ getTimeToLoss(This, DefaultCollapseThreshold).status = "declining"

\* The README's formula with the default rates, on weather in tenths
C19_Readme(o) ==
    o.precipitation * 10 - Max(0, o.temperature) * 5 - o.windSpeed * 1

C20_Readme(x, n) ==
    IF x > 100 * n THEN "Advancing"
    ELSE IF x < -100 * n THEN "Receding"
    ELSE "Stable"

RECURSIVE C21_SumOfSquares(_, _, _)
C21_SumOfSquares(s, first, last) ==
    IF first > last
    THEN 0
    ELSE s[first].dailyChange * s[first].dailyChange
            + C21_SumOfSquares(s, first + 1, last)

\* No daily change of the window is beyond 3 units either way
WindowIsModerate ==
    \A i \in WindowStart..Len(History) :
        History[i].dailyChange >= -3000 /\ History[i].dailyChange <= 3000

\* C21: getTrendVariance returns the population standard deviation of
\* dailyChange over the last-7 window of getSevenDayTrend, and 0 when the
\* window has fewer than 2 entries.  With n entries of sum S and sum of
\* squares Q the mean squared deviation is (n * Q - S * S) / (n * n), that
\* is n * (n * Q - S * S) / (n * n * n).  Stated for windows of daily
\* changes within 3 units; a numerator of Saturation or more is kept as
\* Saturation.
C21_PopulationDeviation ==
    LET n   == WindowLength
        got == getTrendVariance(This).squared
        S   == WindowTotal
        Q   == C21_SumOfSquares(History, WindowStart, Len(History))
    IN  /\ n < 2 => got = Whole(0)
        /\ (n >= 2 /\ WindowIsModerate) =>
              /\ got.den = n * n * n
              /\ got.num = IF n * Q - S * S <= (Saturation - 1) \div n
                           THEN n * (n * Q - S * S)
                           ELSE Saturation

\* Nine entries, the window of the last seven with a deviation above 0,
\* and an entry before the window that differs from the latest.
C21_Witness ==
    /\ Len(History) = 9
    /\ WindowIsModerate
    /\ getTrendVariance(This).squared.num > 0
    /\ getTrendVariance(This).squared.num < Saturation
    /\ History[1].dailyChange # History[9].dailyChange

-----------------------------------------------------------------------------
(* Properties of the frame and of the history *)

\* C22: applyDailyObservation, resetWithObservation, getSnapshot and
\* setSnapshot never change dataContext, which only setDataContext changes,
\* and no call after construction changes params.
C22_ContextAndParamsKept ==
    [][ /\ params' = params
        /\ lastCall'.op # "setDataContext" => dataContext' = dataContext
      ]_vars

\* A reset made after the data was flagged as fallback and stale: the flags
\* are still set.
C22_Witness ==
    /\ lastCall.op = "resetWithObservation"
    /\ Len(History) = 1
    /\ dataContext.isFallback
    /\ dataContext.isStale
    /\ dataContext.sourceLabel = "Simulated"

\* C23: setDataContext(context) gives every field supplied in context its
\* new value, keeps the value of every field not supplied, and leaves
\* healthIndex, the history and lastSource unchanged.
C23_SetDataContextOverlays ==
    [][ lastCall'.op = "setDataContext" =>
          LET context == lastCall'.context
          IN  /\ DOMAIN dataContext' = DOMAIN dataContext \cup DOMAIN context
              /\ \A k \in DOMAIN context : dataContext'[k] = context[k]
              /\ \A k \in DOMAIN dataContext \ DOMAIN context :
                    dataContext'[k] = dataContext[k]
              /\ healthIndex' = healthIndex
              /\ History' = History
              /\ lastSource' = lastSource
      ]_vars

\* Only isForecast was supplied, on a context already marked simulated,
\* fallback and stale: those are kept.
C23_Witness ==
    /\ lastCall.op = "setDataContext"
    /\ lastCall.context = [isForecast |-> TRUE]
    /\ dataContext.isForecast
    /\ dataContext.isFallback
    /\ dataContext.isStale
    /\ dataContext.sourceLabel = "Simulated"

\* C24: whenever the history is non-empty, lastSource equals the
\* sourceLabel of the most recent history entry, whatever sourceLabel
\* strings applyDailyObservation and resetWithObservation were given and
\* after any setSnapshot of a snapshot getSnapshot produced.
C24_LastSourceMirrors ==
    Len(History) > 0 => lastSource = History[Len(History)].sourceLabel

\* C28: when the history is non-empty, healthIndex equals the last entry's
\* healthIndex; every entry's healthIndex is in [0, 200]; and each entry's
\* healthIndex is the one before it plus its own dailyChange, cut to
\* [0, 200], also after evictions.
C28_HealthChain ==
    /\ Len(History) > 0 => healthIndex = History[Len(History)].healthIndex
    /\ \A i \in 1..Len(History) :
          History[i].healthIndex >= 0 /\ History[i].healthIndex <= Units(200)
    /\ \A i \in 1..(Len(History) - 1) :
          LET sum == History[i].healthIndex + History[i + 1].dailyChange
          IN  History[i + 1].healthIndex =
                  IF sum < 0 THEN 0
                  ELSE IF sum > Units(200) THEN Units(200)
                  ELSE sum

\* A full history that has lost its first entries, restored from a
\* snapshot, with an entry whose sum was cut at 200.
C28_Witness ==
    /\ lastCall.op = "setSnapshot"
    /\ Len(History) = 30
    /\ History[1].date > 1
    /\ \E i \in 1..29 :
          History[i].healthIndex + History[i + 1].dailyChange > Units(200)

\* The 7-day trend, read off the history, is above advancingThreshold /
\* below recedingThreshold (the trend of an empty history is 0)
TrendAboveAdvancing ==
    IF WindowLength = 0
    THEN 0 > params.advancingThreshold
    ELSE WindowTotal > params.advancingThreshold * WindowLength
TrendBelowReceding ==
    IF WindowLength = 0
    THEN 0 < params.recedingThreshold
    ELSE WindowTotal < params.recedingThreshold * WindowLength

\* C29: getState makes its two threshold comparisons independently, the
\* Receding one last.  With thresholds under which the trend is both above
\* advancingThreshold and below recedingThreshold the state is 'Receding';
\* the state is 'Advancing' only if the trend is above advancingThreshold
\* and not below recedingThreshold.
C29_RecedingComparedLast ==
    /\ (TrendAboveAdvancing /\ TrendBelowReceding) =>
          getState(This).state = "Receding"
    /\ getState(This).state = "Advancing" =>
          (TrendAboveAdvancing /\ ~TrendBelowReceding)

\* Two different days under the overlapping thresholds -0.2 and 0.2, their
\* mean between them: 'Receding'.
C29_Witness ==
    /\ params.advancingThreshold < params.recedingThreshold
    /\ Len(History) = 2
    /\ History[1].dailyChange # History[2].dailyChange
    /\ TrendAboveAdvancing
    /\ TrendBelowReceding
    /\ getState(This).state = "Receding"

-----------------------------------------------------------------------------
(* Properties of the projection's message *)

\* C30: in every declining projection the two numbers of the message
\* '~Y years, D days remaining.' satisfy 0 <= D <= 364, and Y * 365 + D
\* differs from daysLeft = remaining / |trend| by less than one day.
C30_MessageNumbers ==
    \A threshold \in CollapseThresholds :
        LET got == getTimeToLoss(This, threshold)
        IN  got.status = "declining" =>
                LET Y        == got.message.years
                    D        == got.message.days
                    daysLeft == Frac((healthIndex - threshold) * WindowLength,
                                     -WindowTotal)
                IN  /\ 0 <= D
                    /\ D <= 364
                    /\ (Y * 365 + D - 1) * daysLeft.den < daysLeft.num
                    /\ daysLeft.num < (Y * 365 + D + 1) * daysLeft.den


-----------------------------------------------------------------------------
(* The dashboard (main.js): one state per glacier, each with its own        *)
(* GlacierModel, the active glacier, and the handlers of the user's         *)
(* actions.  A handler runs up to its await, is suspended while the weather *)
(* service answers, and resumes later; other handlers may start and resume  *)
(* in between.  The variables of the single model are idle here.            *)

\* the ids of GLACIERS; two of the three are modelled
GlacierIds == {"mendenhall", "columbia"}

\* GLACIERS[0].id
FirstGlacierId == "mendenhall"

\* an id no glacier has
UnknownGlacierId == "denali"

MaxHandlers == 3     \* handlers started in a run, the one of the startup included
MaxPending == 2      \* handlers suspended at their await at the same time

\* A Date is an instant counted in half days: 2 * day at midnight UTC,
\* 2 * day + 1 at noon.
\* toDateKey(date): date.toISOString().slice(0, 10), the UTC day
toDateKey(date) == date \div 2

\* lastObservedDateKey: null; no day has this key
NoDateKey == 0

\* glacierState[id] as constructed
NewGlacierState ==
    [model                |-> constructor(<<>>),
     baselineSnapshot     |-> NULL,
     lastObservedDateKey  |-> NoDateKey,
     lastObservedData     |-> NULL]

\* The model and the baseline snapshot after a handler's step: arrays
\* neither refers to are collected, the model's history is renamed to 1 and
\* the snapshot's to 2.
Compact(state) ==
    LET self   == state.model
        snap   == state.baselineSnapshot
        h      == self.history
        sh     == IF snap = NULL THEN h ELSE snap.history
        rename == [a \in {h, sh} |-> IF a = h THEN 1 ELSE 2]
        kept   == Collect(self.arrays, {h, sh})
    IN  [state EXCEPT
            !.model = [self EXCEPT
                         !.history = rename[h],
                         !.arrays  = [b \in {rename[a] : a \in DOMAIN kept} |->
                                        kept[CHOOSE a \in DOMAIN kept :
                                                        rename[a] = b]]],
            !.baselineSnapshot = IF snap = NULL
                                 THEN NULL
                                 ELSE [snap EXCEPT !.history = rename[sh]]]

\* What fetchCurrent resolves to: the request failed, or an observation
\* taken at noon of day 1 or of day 2.
CurrentResults ==
    {[ok |-> FALSE, sourceLabel |-> "Fallback", data |-> NULL]} \cup
    {[ok |-> TRUE, sourceLabel |-> "Observed",
      data |-> Observation(RoutineWeather, d)] : d \in {3, 5}}

\* (Date.now() - result.data.date.getTime()) / 3600000: half an hour, three
\* hours
AgesInHours == {Hours(5), Hours(30)}

\* typeof ageHours === 'number' && ageHours > 2
IsStale(ageHours) == IsNumber(ageHours) /\ ageHours.hours > 20

\* A series of `days` daily observations from the instant `first` on
DailySeries(first, days) ==
    [i \in 1..days |-> Observation(RoutineWeather, first + 2 * (i - 1))]

\* What fetchDailySeries(days) resolves to: the forecast of the `days` days
\* from midnight of day 1 or of day 2 on, or, the request having failed,
\* the simulated series of the days after the current observation.
DailySeriesResults(days) ==
    {[sourceLabel |-> "Forecast", series |-> DailySeries(first, days)] :
        first \in {2, 4}} \cup
    {[sourceLabel |-> "Simulated", series |-> DailySeries(5, days)]}

\* What fetchScenarioSeries(days, scenario, baseline) resolves to: the days
\* after the baseline observation, after the current one without a baseline
ScenarioSeriesResults(days, baseline) ==
    {[sourceLabel |-> "Scenario: Ice Age",
      series |-> DailySeries(first + 2, days)] :
        first \in IF baseline = NULL THEN {3, 5} ELSE {baseline.date}}

\* series.filter(day => !state.lastObservedDateKey ||
\*                      toDateKey(day.date) !== state.lastObservedDateKey)
FilteredSeries(series, lastObservedDateKey) ==
    LET Keep(day) == \/ lastObservedDateKey = NoDateKey
                     \/ toDateKey(day.date) # lastObservedDateKey
    IN  SelectSeq(series, Keep)

\* filteredSeries.forEach(day => model.applyDailyObservation(day, label))
RECURSIVE ApplyEach(_, _, _)
ApplyEach(self, series, sourceLabel) ==
    IF series = <<>>
    THEN self
    ELSE ApplyEach(applyDailyObservation(self, Head(series), sourceLabel),
                   Tail(series), sourceLabel)

\* loadCurrentConditions(reset, forceFetch) from its await on: `state` is
\* the glacier's state the handler took before the await
loadCurrentConditions(state, reset, result, ageHours) ==
    IF ~(result.ok /\ result.data # NULL)
    THEN state
    ELSE LET dateKey       == toDateKey(result.data.date)
             shouldAdvance == dateKey # state.lastObservedDateKey
             observed      == [state EXCEPT !.lastObservedData = result.data]
         IN  IF reset \/ shouldAdvance
             THEN LET fresh   == resetWithObservation(observed.model,
                                     result.data, result.sourceLabel)
                      settled == Compact([observed EXCEPT !.model = fresh])
                      context == [sourceLabel |-> result.sourceLabel,
                                  ageHours    |-> ageHours,
                                  isFallback  |-> FALSE,
                                  isForecast  |-> FALSE,
                                  isScenario  |-> FALSE,
                                  isStale     |-> IsStale(ageHours)]
                      inContext == setDataContext(settled.model, context)
                      taken   == getSnapshot(inContext)
                  IN  Compact([settled EXCEPT
                          !.model = [inContext EXCEPT !.arrays = taken.arrays],
                          !.baselineSnapshot = taken.value,
                          !.lastObservedDateKey = dateKey])
             ELSE observed

\* Faulty variant: the model is left as the previous run left it
RestoreNothing(state) == state

\* simulateDays and simulateScenario up to their await:
\* if (state.baselineSnapshot) state.model.setSnapshot(state.baselineSnapshot)
RestoreBaseline(state) ==
    IF state.baselineSnapshot # NULL
    THEN Compact([state EXCEPT
                    !.model = setSnapshot(state.model, state.baselineSnapshot)])
    ELSE state

\* simulateDays and simulateScenario from their await on: the filter, the
\* forEach and setDataContext
simulate(state, result, context) ==
    LET filteredSeries == FilteredSeries(result.series,
                                         state.lastObservedDateKey)
        applied == ApplyEach(state.model, filteredSeries, result.sourceLabel)
    IN  [state EXCEPT !.model = setDataContext(applied, context)]

\* the context simulateDays sets
SimulateDaysContext(sourceLabel) ==
    [sourceLabel |-> sourceLabel,
     ageHours    |-> NULL,
     isFallback  |-> sourceLabel = "Simulated",
     isForecast  |-> sourceLabel = "Forecast",
     isScenario  |-> FALSE,
     isStale     |-> sourceLabel = "Simulated"]

\* the context simulateScenario sets
SimulateScenarioContext(sourceLabel) ==
    [sourceLabel |-> sourceLabel,
     ageHours    |-> NULL,
     isFallback  |-> TRUE,
     isForecast  |-> FALSE,
     isScenario  |-> TRUE,
     isStale     |-> TRUE]

\* the days the simulate buttons ask for: a week, a month
SimulateButtons == {7, 30}

\* onScenarioSelect: ui.onScenarioSimulateCallback?.(7, scenario)
ScenarioDays == 7

-----------------------------------------------------------------------------
(* The dashboard's state machine *)

\* getActiveState()
getActiveState == dashboard.glacierState[dashboard.activeGlacierId]

\* a handler suspended at its await; `glacier` names the state it took
Handler(kind, glacier, reset, days, baseline) ==
    [kind |-> kind, glacier |-> glacier, reset |-> reset, days |-> days,
     baseline |-> baseline]

\* s without its i-th element
Without(s, i) == SubSeq(s, 1, i - 1) \o SubSeq(s, i + 1, Len(s))

CanStart ==
    /\ dashboard.started < MaxHandlers
    /\ Len(dashboard.pending) < MaxPending

\* A handler starts: it runs up to its await, leaving the state `state` of
\* the active glacier, and is suspended.
Starts(handler, state) ==
    /\ dashboard' = [dashboard EXCEPT
            !.glacierState[handler.glacier] = state,
            !.pending    = Append(@, handler),
            !.started    = @ + 1,
            !.overlapped = @ \/ dashboard.pending # <<>>]
    /\ lastCall' = [op |-> "start", kind |-> handler.kind,
                    glacier |-> handler.glacier]
    /\ UNCHANGED <<params, healthIndex, history, lastSource, dataContext,
                   arrays, snapshot, varied>>

\* Faulty variant: the handler asks for the active glacier's state again
\* after its await and writes there
ResumesOnActive(i, state, result) ==
    LET handler == dashboard.pending[i]
    IN  /\ dashboard' = [dashboard EXCEPT
                !.glacierState[dashboard.activeGlacierId] = state,
                !.pending = Without(@, i)]
        /\ lastCall' = [op |-> "resume", kind |-> handler.kind,
                        glacier |-> handler.glacier, result |-> result]
        /\ UNCHANGED <<params, healthIndex, history, lastSource, dataContext,
                       arrays, snapshot, varied>>

\* The i-th suspended handler resumes and runs to its end, leaving the
\* state `state` of the glacier it took.
Resumes(i, state, result) ==
    LET handler == dashboard.pending[i]
    IN  /\ dashboard' = [dashboard EXCEPT
                !.glacierState[handler.glacier] = state,
                !.pending = Without(@, i)]
        /\ lastCall' = [op |-> "resume", kind |-> handler.kind,
                        glacier |-> handler.glacier, result |-> result]
        /\ UNCHANGED <<params, healthIndex, history, lastSource, dataContext,
                       arrays, snapshot, varied>>

\* The state at the end of the script: the glaciers' states are built,
\* mendenhall is active and the startup's loadCurrentConditions() is
\* suspended at its await.
InitDashboard ==
    /\ LET self == constructor(<<>>)
       IN  /\ params = self.params
           /\ healthIndex = self.healthIndex
           /\ history = self.history
           /\ lastSource = self.lastSource
           /\ dataContext = self.dataContext
           /\ arrays = self.arrays
    /\ snapshot = NULL
    /\ varied = 0
    /\ lastCall = [op |-> "start", kind |-> "load", glacier |-> FirstGlacierId]
    /\ dashboard =
          [glacierState    |-> [g \in GlacierIds |-> NewGlacierState],
           activeGlacierId |-> FirstGlacierId,
           pending         |-> <<Handler("load", FirstGlacierId, FALSE, 0, NULL)>>,
           started         |-> 1,
           overlapped      |-> FALSE]

\* ui.onRefresh: loadCurrentConditions(true, true)
Refresh ==
    /\ CanStart
    /\ Starts(Handler("load", dashboard.activeGlacierId, TRUE, 0, NULL),
              getActiveState)

\* ui.onGlacierChange(glacierId)
GlacierChange ==
    \E glacierId \in GlacierIds \cup {UnknownGlacierId} :
        IF glacierId \notin GlacierIds
        THEN /\ lastCall' = [op |-> "glacierChange", kind |-> "none",
                             glacier |-> glacierId]
             /\ UNCHANGED <<params, healthIndex, history, lastSource,
                            dataContext, arrays, snapshot, varied, dashboard>>
        ELSE IF dashboard.glacierState[glacierId].lastObservedData # NULL
        THEN /\ dashboard' = [dashboard EXCEPT !.activeGlacierId = glacierId]
             /\ lastCall' = [op |-> "glacierChange", kind |-> "none",
                             glacier |-> glacierId]
             /\ UNCHANGED <<params, healthIndex, history, lastSource,
                            dataContext, arrays, snapshot, varied>>
        ELSE /\ CanStart
             /\ dashboard' = [dashboard EXCEPT
                    !.activeGlacierId = glacierId,
                    !.pending    = Append(@, Handler("load", glacierId, TRUE,
                                                     0, NULL)),
                    !.started    = @ + 1,
                    !.overlapped = @ \/ dashboard.pending # <<>>]
             /\ lastCall' = [op |-> "start", kind |-> "load",
                             glacier |-> glacierId]
             /\ UNCHANGED <<params, healthIndex, history, lastSource,
                            dataContext, arrays, snapshot, varied>>

\* ui.onSimulate(days): simulateDays(days) up to its await
SimulateDays ==
    \E days \in SimulateButtons :
        /\ CanStart
        /\ Starts(Handler("days", dashboard.activeGlacierId, FALSE, days, NULL),
                  RestoreBaseline(getActiveState))

\* ui.onScenarioSelect(scenario): simulateScenario(7, scenario) up to its
\* await; state.lastObservedData is read for the call before the await
SimulateScenario ==
    /\ CanStart
    /\ Starts(Handler("scenario", dashboard.activeGlacierId, FALSE,
                      ScenarioDays, getActiveState.lastObservedData),
              RestoreBaseline(getActiveState))

\* loadCurrentConditions from its await on
ResumeLoad ==
    \E i \in 1..Len(dashboard.pending) :
        LET handler == dashboard.pending[i]
            state   == dashboard.glacierState[handler.glacier]
        IN  /\ handler.kind = "load"
            /\ \E result \in CurrentResults, ageHours \in AgesInHours :
                  Resumes(i, loadCurrentConditions(state, handler.reset,
                                                   result, ageHours),
                          result)

\* simulateDays from its await on
ResumeSimulateDays ==
    \E i \in 1..Len(dashboard.pending) :
        LET handler == dashboard.pending[i]
            state   == dashboard.glacierState[handler.glacier]
        IN  /\ handler.kind = "days"
            /\ \E result \in DailySeriesResults(handler.days) :
                  Resumes(i, simulate(state, result,
                                 SimulateDaysContext(result.sourceLabel)),
                          result)

\* simulateScenario from its await on
ResumeSimulateScenario ==
    \E i \in 1..Len(dashboard.pending) :
        LET handler == dashboard.pending[i]
            state   == dashboard.glacierState[handler.glacier]
        IN  /\ handler.kind = "scenario"
            /\ \E result \in ScenarioSeriesResults(handler.days,
                                                   handler.baseline) :
                  Resumes(i, simulate(state, result,
                                 SimulateScenarioContext(result.sourceLabel)),
                          result)

NextDashboard ==
    \/ Refresh
    \/ GlacierChange
    \/ SimulateDays
    \/ SimulateScenario
    \/ ResumeLoad
    \/ ResumeSimulateDays
    \/ ResumeSimulateScenario

SpecDashboard == InitDashboard /\ [][NextDashboard]_vars

-----------------------------------------------------------------------------
(* Properties of the dashboard *)

\* the entries of a glacier's model history
HistoryOf(state) == state.model.arrays[state.model.history]

\* the entries of a glacier's baseline snapshot
BaselineOf(state) == state.model.arrays[state.baselineSnapshot.history]

\* the date and the source label of each entry
Dated(s) ==
    [i \in 1..Len(s) |-> [date |-> s[i].date, sourceLabel |-> s[i].sourceLabel]]

\* the dates of a run's filtered series under the run's label
DatedRun(result, lastObservedDateKey) ==
    LET run == FilteredSeries(result.series, lastObservedDateKey)
    IN  [i \in 1..Len(run) |->
            [date |-> run[i].date, sourceLabel |-> result.sourceLabel]]

IsSimulation(call) ==
    /\ call.op \in {"start", "resume"}
    /\ call.kind \in {"days", "scenario"}

\* The step leaves the glacier's baseline snapshot as it was.
BaselineKept(before, after) ==
    /\ after.baselineSnapshot # NULL
    /\ after.baselineSnapshot.healthIndex = before.baselineSnapshot.healthIndex
    /\ after.baselineSnapshot.lastSource = before.baselineSnapshot.lastSource
    /\ BaselineOf(after) = BaselineOf(before)

\* The history is the baseline's followed by the run's filtered series.
BaselineThenRun(state, result) ==
    LET H   == HistoryOf(state)
        B   == BaselineOf(state)
        run == DatedRun(result, state.lastObservedDateKey)
    IN  /\ Len(H) = Len(B) + Len(run)
        /\ SubSeq(H, 1, Len(B)) = B
        /\ Dated(H) = Dated(B) \o run

\* The history is the last maxHistory entries of the baseline's followed by
\* the run's filtered series.
LatestOfBaselineThenRun(state, result) ==
    LET H       == HistoryOf(state)
        B       == BaselineOf(state)
        run     == DatedRun(result, state.lastObservedDateKey)
        evicted == Max(0, Len(B) + Len(run) - maxHistory)
        kept    == Max(0, Len(B) - evicted)
    IN  /\ Dated(H) = SliceLast(Dated(B) \o run, maxHistory)
        /\ Len(H) >= kept
        /\ SubSeq(H, 1, kept) = SubSeq(B, Len(B) - kept + 1, Len(B))

\* C25 as stated: with handlers running one at a time, a simulation run on
\* a glacier with a baseline leaves the history equal to the baseline's
\* history followed by exactly that run's filtered series, and leaves the
\* baseline snapshot as it was.
C25_BaselineThenRunAsStated ==
    [][ LET g      == lastCall'.glacier
            before == dashboard.glacierState[g]
            after  == dashboard'.glacierState[g]
        IN  (/\ IsSimulation(lastCall')
             /\ ~dashboard'.overlapped
             /\ before.baselineSnapshot # NULL)
            => /\ BaselineKept(before, after)
               /\ lastCall'.op = "resume" =>
                     BaselineThenRun(after, lastCall'.result) ]_vars

\* C25: with handlers running one at a time, a simulation run on a glacier
\* with a baseline leaves the history equal to the last 30 entries of the
\* baseline's history followed by that run's filtered series (no entry of
\* an earlier run is left), and leaves the baseline snapshot as it was.
C25_BaselineThenRun ==
    [][ LET g      == lastCall'.glacier
            before == dashboard.glacierState[g]
            after  == dashboard'.glacierState[g]
        IN  (/\ IsSimulation(lastCall')
             /\ ~dashboard'.overlapped
             /\ before.baselineSnapshot # NULL)
            => /\ BaselineKept(before, after)
               /\ lastCall'.op = "resume" =>
                     LatestOfBaselineThenRun(after, lastCall'.result) ]_vars

\* A run of thirty simulated days has ended on a glacier with a baseline,
\* no handler having overlapped another: the baseline's entry was evicted.
C25_Witness ==
    /\ dashboard # NULL
    /\ IsSimulation(lastCall)
    /\ lastCall.op = "resume"
    /\ ~dashboard.overlapped
    /\ LET state == dashboard.glacierState[lastCall.glacier]
       IN  /\ state.baselineSnapshot # NULL
           /\ Len(HistoryOf(state)) = maxHistory
           /\ HistoryOf(state)[1].sourceLabel = "Simulated"

\* C26: a handler takes the state of the glacier active when it starts
\* and, before and after its await, changes the state of that glacier
\* only, whichever glacier is active when it resumes.
C26_OnlyOwnGlacier ==
    [][ /\ \A g \in GlacierIds :
              g # lastCall'.glacier =>
                 dashboard'.glacierState[g] = dashboard.glacierState[g]
        /\ lastCall'.op = "start" =>
              /\ lastCall'.glacier = dashboard'.activeGlacierId
              /\ dashboard'.pending =
                    Append(dashboard.pending,
                           dashboard'.pending[Len(dashboard'.pending)])
              /\ dashboard'.pending[Len(dashboard'.pending)].glacier =
                    lastCall'.glacier
        /\ lastCall'.op = "resume" =>
              \E i \in 1..Len(dashboard.pending) :
                 /\ dashboard.pending[i].glacier = lastCall'.glacier
                 /\ dashboard.pending[i].kind = lastCall'.kind
                 /\ dashboard'.pending = Without(dashboard.pending, i) ]_vars

\* A load started on a glacier has resumed after the other glacier became
\* the active one, and has set its own glacier's baseline.
C26_Witness ==
    /\ dashboard # NULL
    /\ lastCall.op = "resume"
    /\ lastCall.kind = "load"
    /\ lastCall.result.ok
    /\ lastCall.glacier # dashboard.activeGlacierId
    /\ dashboard.glacierState[lastCall.glacier].baselineSnapshot # NULL
    /\ dashboard.glacierState[dashboard.activeGlacierId].baselineSnapshot = NULL

\* C27 fails: at the end of every simulation run on a glacier with a
\* baseline, overlapped by another or not, the history is the last 30
\* entries of the baseline's history followed by that one run's filtered
\* series.
C27_SingleRunOnBaseline ==
    [][ LET after == dashboard'.glacierState[lastCall'.glacier]
        IN  (/\ IsSimulation(lastCall')
             /\ lastCall'.op = "resume"
             /\ after.baselineSnapshot # NULL)
            => LatestOfBaselineThenRun(after, lastCall'.result) ]_vars

\* The series of two overlapping runs of seven days lie one after the
\* other on the baseline's single entry.
C27_TwoRunsAppended ==
    /\ dashboard # NULL
    /\ IsSimulation(lastCall)
    /\ lastCall.op = "resume"
    /\ dashboard.overlapped
    /\ LET state == dashboard.glacierState[lastCall.glacier]
       IN  /\ state.baselineSnapshot # NULL
           /\ Len(BaselineOf(state)) = 1
           /\ Len(HistoryOf(state)) = 1 + ScenarioDays + ScenarioDays
=============================================================================
